---------------------------- MODULE Spec2Model ----------------------------
(***************************************************************************)
(* MIR constants of rustc_middle (compiler/rustc_middle/src/mir/consts.rs) *)
(* as a state machine: one constant is lowered into a MIR body, then       *)
(* passes apply eval / normalize / try_eval_* / shrink / == to it.         *)
(* Unevaluated constants are resolved through the memoized resolution      *)
(* query; its cache is part of the state.                                  *)
(***************************************************************************)
EXTENDS Integers, Sequences, FiniteSets, TLC

(***************************************************************************)
(* Bounds of the model.                                                    *)
(***************************************************************************)
\* generic parameters per item: 0..MaxParams
MaxParams == 2
\* promoted indices: 0..MaxPromoted-1
MaxPromoted == 1
\* concurrent requesters of the resolution query
MaxThreads == 2
\* cap on the executions of the underlying computation of one key
MaxRuns == 2
\* unrelated bytes in front of a fat pointer in its allocation: 0..MaxPad
MaxPad == 1
\* byte offsets of an Indirect value: 0..MaxOffset
MaxOffset == 2
\* slice lengths and data-pointer offsets held by a fat pointer: 0..MaxLen
MaxLen == 2

\* tcx.data_layout.pointer_size in bytes, for the 32-bit target of src/
PointerSize == 4

VARIABLES phase, node, cache, runs, last, pc, req, got, inflight, delivered,
          ptr_size, memory, cval

vars == <<phase, node, cache, runs, last, pc, req, got, inflight, delivered,
          ptr_size, memory, cval>>

(***************************************************************************)
(* Option and Result.                                                      *)
(***************************************************************************)
None == [some |-> FALSE]
Some(x) == [some |-> TRUE, val |-> x]
Ok(x) == [ok |-> TRUE, val |-> x]
Err(e) == [ok |-> FALSE, err |-> e]
\* a panic (assert!, assert_eq!, bug!) escaping an operation
Panic == [panic |-> TRUE]
Returned(x) == [panic |-> FALSE, ret |-> x]

(***************************************************************************)
(* ErrorHandled.  The span each error carries is diagnostics only and is   *)
(* ignored (`_span`) by all the code modelled here; it is left out.        *)
(***************************************************************************)
Proofs == {"g1", "g2"}
ReportedErrorInfo(g, t) == [error |-> g, is_tainted_by_errors |-> t]
ReportedInfos == {ReportedErrorInfo("g1", FALSE), ReportedErrorInfo("g2", TRUE)}
Reported(info) == [eh |-> "Reported", info |-> info]
TooGeneric == [eh |-> "TooGeneric"]
\* From<ReportedErrorInfo> for ErrorGuaranteed: `guar.into()`
InfoIntoGuar(info) == info.error
\* From<ErrorGuaranteed> for ErrorHandled
GuarIntoError(g) == Reported(ReportedErrorInfo(g, FALSE))

(***************************************************************************)
(* Types and their layout.                                                 *)
(***************************************************************************)
Tys == {"bool", "u8", "u32", "usize", "unit", "ptr", "str", "T"}

\* tcx.layout_of(..).ok().size : None for a type that is still generic
LayoutSize(ty) ==
    CASE ty = "bool" -> Some(1)
      [] ty = "u8" -> Some(1)
      [] ty = "u32" -> Some(4)
      [] ty = "usize" -> Some(PointerSize)
      [] ty = "ptr" -> Some(PointerSize)
      [] ty = "str" -> Some(2 * PointerSize)
      [] ty = "unit" -> Some(0)
      [] OTHER -> None

(***************************************************************************)
(* Scalar, ScalarInt, ConstValue, ValTree.                                 *)
(***************************************************************************)
ScalarInt(size, data) == [size |-> size, data |-> data]
ScalarOfInt(int) == [tag |-> "Int", int |-> int]
ScalarPtr(alloc, offset) == [tag |-> "Ptr", alloc |-> alloc, offset |-> offset]

CVScalar(s) == [cv |-> "Scalar", scalar |-> s]
CVZeroSized == [cv |-> "ZeroSized"]
CVSlice(data, start, end) == [cv |-> "Slice", data |-> data, start |-> start, end |-> end]
CVIndirect(alloc_id, offset) == [cv |-> "Indirect", alloc_id |-> alloc_id, offset |-> offset]

Leaf(int) == [vt |-> "Leaf", int |-> int]
Branch == [vt |-> "Branch"]

\* the scalar integers a constant of type ty can hold
IntsOf(ty) ==
    CASE ty = "bool" -> {ScalarInt(1, 0), ScalarInt(1, 1)}
      [] ty = "u8" -> {ScalarInt(1, 1), ScalarInt(1, 2), ScalarInt(1, 255)}
      [] ty = "u32" -> {ScalarInt(4, 42), ScalarInt(4, 300)}
      [] ty = "usize" -> {ScalarInt(PointerSize, 7)}
      [] OTHER -> {}

\* the values a constant of type ty can hold (the variant invariants of ConstValue)
ValuesOf(ty) ==
    CASE ty = "unit" -> {CVZeroSized}
      [] ty = "ptr" -> {CVScalar(ScalarPtr("a1", 0))}
      [] ty = "str" -> {CVSlice("a1", 0, 2), CVIndirect("a2", 0)}
      [] OTHER -> {CVScalar(ScalarOfInt(i)) : i \in IntsOf(ty)}

\* the value trees a type-level constant of type ty can hold
ValTreesOf(ty) ==
    IF ty = "unit" THEN {Branch} ELSE {Leaf(i) : i \in IntsOf(ty)}


(***************************************************************************)
(* Scalar / ScalarInt narrowing (rustc_middle::mir::interpret, ty::consts) *)
(***************************************************************************)
\* Result::ok
ResultOk(r) == IF r.ok THEN Some(r.val) ELSE None

\* Scalar::try_to_int : a pointer with provenance is not an integer
ScalarTryToInt(s) == IF s.tag = "Int" THEN Ok(s.int) ELSE Err(s)

\* ScalarInt::to_bits(size) : the data when the width matches, else the own width
ScalarIntToBits(int, size) == IF size = int.size THEN Ok(int.data) ELSE Err(int.size)

\* TryFrom<ScalarInt> for bool : a one-byte 0 or 1
ScalarIntTryIntoBool(int) ==
    LET bits == ScalarIntToBits(int, 1)
    IN  IF ~bits.ok THEN Err(int.size)
        ELSE IF bits.val = 0 THEN Ok(FALSE)
        ELSE IF bits.val = 1 THEN Ok(TRUE)
        ELSE Err(int.size)

\* ScalarInt::try_to_target_usize : the bits at the target's pointer width
ScalarIntTryToTargetUsize(int) == ScalarIntToBits(int, PointerSize)

(***************************************************************************)
(* ConstValue accessors.                                                   *)
(***************************************************************************)
ConstValue_try_to_scalar_IndirectAsPointer(v) ==
    IF v.cv = "Scalar" THEN Some(v.scalar)
    ELSE IF v.cv = "Indirect" THEN Some(ScalarPtr(v.alloc_id, v.offset))
    ELSE None
ConstValue_try_to_scalar(v) ==
    IF v.cv = "Scalar" THEN Some(v.scalar) ELSE None

\* self.try_to_scalar()?.try_to_int().ok()
ConstValue_try_to_scalar_int(v) ==
    LET s == ConstValue_try_to_scalar(v)
    IN  IF ~s.some THEN None ELSE ResultOk(ScalarTryToInt(s.val))

\* self.try_to_scalar_int()?.to_bits(size).ok()
ConstValue_try_to_bits_Truncating(v, size) ==
    LET int == ConstValue_try_to_scalar_int(v)
    IN  IF ~int.some THEN None
        ELSE IF size < int.val.size THEN Some(int.val.data % (256 ^ size))
        ELSE Some(int.val.data)
ConstValue_try_to_bits(v, size) ==
    LET int == ConstValue_try_to_scalar_int(v)
    IN  IF ~int.some THEN None ELSE ResultOk(ScalarIntToBits(int.val, size))

\* self.try_to_scalar_int()?.try_into().ok()
ConstValue_try_to_bool(v) ==
    LET int == ConstValue_try_to_scalar_int(v)
    IN  IF ~int.some THEN None ELSE ResultOk(ScalarIntTryIntoBool(int.val))

(***************************************************************************)
(* The allocation table (rustc_middle::mir::interpret): an allocation is   *)
(* its bytes, its initialization mask and its provenance map; a byte       *)
(* offset o is position o + 1 of the sequences.                            *)
(***************************************************************************)
Allocation(bytes, init, prov) == [bytes |-> bytes, init |-> init, prov |-> prov]
Memory(alloc) == [kind |-> "Memory", alloc |-> alloc]
StaticItem == [kind |-> "Static"]

\* Allocation::size
AllocSize(a) == Len(a.bytes)

\* tcx.global_alloc(id) : aborts on an id the table does not hold
global_alloc(mem, id) == IF id \in DOMAIN mem THEN Returned(mem[id]) ELSE Panic

\* GlobalAlloc::unwrap_memory : aborts on anything but memory
unwrap_memory(ga) ==
    IF ga.panic THEN Panic
    ELSE IF ga.ret.kind = "Memory" THEN Returned(ga.ret.alloc)
    ELSE Panic

\* read_target_uint, little endian
RECURSIVE read_target_uint(_)
read_target_uint(bytes) ==
    IF bytes = <<>> THEN 0 ELSE Head(bytes) + 256 * read_target_uint(Tail(bytes))

\* the provenance map holds a pointer that overlaps [start, start + size)
ProvenanceInRange(a, start, size, ps) ==
    \E p \in DOMAIN a.prov : p < start + size /\ start < p + ps

\* Allocation::read_scalar(range, read_provenance)
read_scalar(a, start, size, read_provenance, ps) ==
    IF \/ start + size > AllocSize(a)
       \/ \E i \in (start + 1)..(start + size) : ~a.init[i]
    THEN Err("InvalidUninitBytes")
    ELSE LET bits == read_target_uint(SubSeq(a.bytes, start + 1, start + size))
         IN  IF read_provenance /\ start \in DOMAIN a.prov
             THEN Ok(ScalarPtr(a.prov[start], bits))
             ELSE IF ProvenanceInRange(a, start, size, ps)
             THEN Err("ReadPointerAsInt")
             ELSE Ok(ScalarOfInt(ScalarInt(size, bits)))

\* Pointer<Option<AllocId>>
Pointer(prov, offset) == [prov |-> prov, offset |-> offset]

\* Scalar::to_pointer : an integer of pointer width is a pointer without provenance
Scalar_to_pointer(s, ps) ==
    IF s.tag = "Ptr" THEN Ok(Pointer(Some(s.alloc), s.offset))
    ELSE IF s.int.size = ps THEN Ok(Pointer(None, s.int.data))
    ELSE Err(s.int.size)

\* Scalar::to_target_usize : a pointer with provenance is not an integer
Scalar_to_target_usize(s, ps) ==
    IF s.tag = "Ptr" THEN Err("ReadPointerAsInt") ELSE ScalarIntToBits(s.int, ps)

\* Allocation::inspect_with_uninit_and_ptr_outside_interpreter(start..end) :
\* slicing aborts on a range the bytes do not hold
inspect_with_uninit_and_ptr_outside_interpreter(a, start, end) ==
    IF start > end \/ end > AllocSize(a) THEN Panic
    ELSE Returned(Some(SubSeq(a.bytes, start + 1, end)))

(***************************************************************************)
(* ConstValue::try_get_slice_bytes_for_diagnostics.  The outcome carries   *)
(* the result, the byte ranges read from the outer allocation and the ids  *)
(* looked up in the allocation table.                                      *)
(***************************************************************************)
SliceOut(res, reads, lookups) == [res |-> res, reads |-> reads, lookups |-> lookups]
AllocRange(start, size) == [start |-> start, size |-> size]

\* a.size() < offset + 2 * ptr_size : (partially) dangling reference
DanglingReference_OnePointer(a, offset, ps) == AllocSize(a) < offset + ps
DanglingReference(a, offset, ps) == AllocSize(a) < offset + 2 * ps

\* len == 0
LenIsZero_Never(len) == FALSE
LenIsZero(len) == len = 0

\* (data, offset.bytes_usize(), offset.bytes_usize() + len)
SliceRange_FromZero(offset, len) == [start |-> 0, end |-> len]
SliceRange(offset, len) == [start |-> offset, end |-> offset + len]

try_get_slice_bytes_for_diagnostics(v, mem, ps) ==
    IF v.cv \in {"Scalar", "ZeroSized"} THEN SliceOut(Panic, <<>>, <<>>)
    ELSE IF v.cv = "Slice"
    THEN SliceOut(inspect_with_uninit_and_ptr_outside_interpreter(
                      mem[v.data].alloc, v.start, v.end), <<>>, <<>>)
    ELSE
    LET outer == unwrap_memory(global_alloc(mem, v.alloc_id))
        a == outer.ret
        offset == v.offset
        r1 == AllocRange(offset, ps)
        r2 == AllocRange(offset + ps, ps)
        ptrS == read_scalar(a, offset, ps, TRUE, ps)
        ptr == Scalar_to_pointer(ptrS.val, ps)
        lenS == read_scalar(a, offset + ps, ps, FALSE, ps)
        len == Scalar_to_target_usize(lenS.val, ps)
        inner == unwrap_memory(global_alloc(mem, ptr.val.prov.val))
        range == SliceRange(ptr.val.offset, len.val)
    IN  IF outer.panic THEN SliceOut(Panic, <<>>, <<v.alloc_id>>)
        ELSE IF DanglingReference(a, offset, ps)
        THEN SliceOut(Returned(None), <<>>, <<v.alloc_id>>)
        ELSE IF ~ptrS.ok THEN SliceOut(Returned(None), <<r1>>, <<v.alloc_id>>)
        ELSE IF ~ptr.ok THEN SliceOut(Returned(None), <<r1>>, <<v.alloc_id>>)
        ELSE IF ~lenS.ok THEN SliceOut(Returned(None), <<r1, r2>>, <<v.alloc_id>>)
        ELSE IF ~len.ok THEN SliceOut(Returned(None), <<r1, r2>>, <<v.alloc_id>>)
        ELSE IF LenIsZero(len.val)
        THEN SliceOut(Returned(Some(<<>>)), <<r1, r2>>, <<v.alloc_id>>)
        ELSE IF ~ptr.val.prov.some
        THEN SliceOut(Returned(None), <<r1, r2>>, <<v.alloc_id>>)
        ELSE IF inner.panic
        THEN SliceOut(Panic, <<r1, r2>>, <<v.alloc_id, ptr.val.prov.val>>)
        ELSE SliceOut(inspect_with_uninit_and_ptr_outside_interpreter(
                          inner.ret, range.start, range.end),
                      <<r1, r2>>, <<v.alloc_id, ptr.val.prov.val>>)

(***************************************************************************)
(* ty::Const, UnevaluatedConst, ConstantKind, Constant.                    *)
(***************************************************************************)
TyParam(index, name, ty) == [kind |-> "Param", index |-> index, name |-> name, ty |-> ty]
TyValue(valtree, ty) == [kind |-> "Value", valtree |-> valtree, ty |-> ty]
\* ty::Const::new_error(tcx, guar, ty)
TyError(guar, ty) == [kind |-> "Error", guar |-> guar, ty |-> ty]
TyUnevaluated(uv, ty) == [kind |-> "Unevaluated", uv |-> uv, ty |-> ty]
\* ty::UnevaluatedConst { def, args }
TyUnevaluatedConst(def, args) == [def |-> def, args |-> args]

UnevaluatedConst(def, args, promoted) == [def |-> def, args |-> args, promoted |-> promoted]
\* UnevaluatedConst::new : promoted is Default::default()
UnevaluatedConst_new(def, args) == UnevaluatedConst(def, args, None)

CKTy(c) == [ck |-> "Ty", c |-> c]
CKUnevaluated(uv, ty) == [ck |-> "Unevaluated", uv |-> uv, ty |-> ty]
CKVal(val, ty) == [ck |-> "Val", val |-> val, ty |-> ty]

Constant(span, user_ty, literal) == [span |-> span, user_ty |-> user_ty, literal |-> literal]

\* ConstantKind::ty
ConstantKind_ty(c) == IF c.ck = "Ty" THEN c.c.ty ELSE c.ty

\* #[derive(PartialEq)] on Constant: every field is compared
Constant_eq_IgnoringSpan(a, b) == a.user_ty = b.user_ty /\ a.literal = b.literal
Constant_eq(a, b) == a.span = b.span /\ a.user_ty = b.user_ty /\ a.literal = b.literal

\* UnevaluatedConst::shrink
shrink_Unchecked(uv) == Returned(TyUnevaluatedConst(uv.def, uv.args))
shrink(uv) ==
    IF uv.promoted # None THEN Panic
    ELSE Returned(TyUnevaluatedConst(uv.def, uv.args))

(***************************************************************************)
(* The collaborators of evaluation.                                        *)
(***************************************************************************)
\* the two memoized queries and their keys
ValueKey(uv) == [q |-> "value", def |-> uv.def, args |-> uv.args, promoted |-> uv.promoted]
ValTreeKey(uv) == [q |-> "valtree", def |-> uv.def, args |-> uv.args, promoted |-> None]

\* what the underlying computation of a key can yield for a constant of type ty
Failures == {Err(Reported(i)) : i \in ReportedInfos} \cup {Err(TooGeneric)}
Outcomes(key, ty) ==
    IF key.q = "value" THEN {Ok(v) : v \in ValuesOf(ty)} \cup Failures
    ELSE {Ok(t) : t \in ValTreesOf(ty)} \cup Failures

\* the outcome handed to an operation that issued no query
NoOutcome == Err([eh |-> "NoQuery"])

\* ty::Const::eval : the type-system evaluator; `out` is the outcome of the
\* valtree query, consulted for an unevaluated type-level constant only
TyConst_eval(c, out) ==
    CASE c.kind = "Value" -> Ok(c.valtree)
      [] c.kind = "Error" -> Err(GuarIntoError(c.guar))
      [] c.kind = "Unevaluated" -> out
      [] OTHER -> Err(TooGeneric)

\* tcx.valtree_to_const_val((ty, valtree))
valtree_to_const_val(ty, valtree) ==
    IF valtree.vt = "Leaf" THEN CVScalar(ScalarOfInt(valtree.int)) ELSE CVZeroSized

(***************************************************************************)
(* ConstantKind::eval and what is layered on it.  `out` is the outcome of  *)
(* the one query the operation issues (EvalQuery), NoOutcome if none.      *)
(***************************************************************************)
\* the query eval issues for c, if any
EvalQuery_ValToo(c) ==
    CASE c.ck = "Ty" ->
           IF c.c.kind = "Unevaluated" THEN Some(ValTreeKey(c.c.uv)) ELSE None
      [] c.ck = "Unevaluated" -> Some(ValueKey(c.uv))
      [] OTHER -> Some(ValueKey(UnevaluatedConst_new("A", <<>>)))
EvalQuery(c) ==
    CASE c.ck = "Ty" ->
           IF c.c.kind = "Unevaluated" THEN Some(ValTreeKey(c.c.uv)) ELSE None
      [] c.ck = "Unevaluated" -> Some(ValueKey(c.uv))
      [] OTHER -> None

eval_ValCleared(c, out) ==
    CASE c.ck = "Ty" ->
           LET val == TyConst_eval(c.c, out)
           IN  IF val.ok THEN Ok(valtree_to_const_val(ConstantKind_ty(c), val.val))
               ELSE val
      [] c.ck = "Unevaluated" -> out
      [] OTHER -> Ok(CVZeroSized)
eval(c, out) ==
    CASE c.ck = "Ty" ->
           LET val == TyConst_eval(c.c, out)
           IN  IF val.ok THEN Ok(valtree_to_const_val(ConstantKind_ty(c), val.val))
               ELSE val
      [] c.ck = "Unevaluated" -> out
      [] OTHER -> Ok(c.val)

normalize_ReportedKept(c, out) ==
    LET r == eval(c, out)
    IN  IF r.ok THEN CKVal(r.val, ConstantKind_ty(c)) ELSE c
normalize_TooGenericAsError(c, out) ==
    LET r == eval(c, out)
    IN  IF r.ok THEN CKVal(r.val, ConstantKind_ty(c))
        ELSE IF r.err.eh = "Reported"
             THEN CKTy(TyError(InfoIntoGuar(r.err.info), ConstantKind_ty(c)))
        ELSE CKTy(TyError("g1", ConstantKind_ty(c)))
normalize_ErrorOfUnitTy(c, out) ==
    LET r == eval(c, out)
    IN  IF r.ok THEN CKVal(r.val, ConstantKind_ty(c))
        ELSE IF r.err.eh = "Reported"
             THEN CKTy(TyError(InfoIntoGuar(r.err.info), "unit"))
        ELSE c
normalize(c, out) ==
    LET r == eval(c, out)
    IN  IF r.ok THEN CKVal(r.val, ConstantKind_ty(c))
        ELSE IF r.err.eh = "Reported"
             THEN CKTy(TyError(InfoIntoGuar(r.err.info), ConstantKind_ty(c)))
        ELSE c

try_eval_scalar_Unwrap(c, out) ==
    LET r == eval(c, out)
    IN  IF ~r.ok THEN Panic ELSE Returned(ConstValue_try_to_scalar(r.val))
try_eval_scalar(c, out) ==
    LET r == eval(c, out)
    IN  IF ~r.ok THEN Returned(None) ELSE Returned(ConstValue_try_to_scalar(r.val))

try_eval_scalar_int(c, out) ==
    LET s == try_eval_scalar(c, out)
    IN  IF s.panic THEN Panic
        ELSE IF ~s.ret.some THEN Returned(None)
        ELSE Returned(ResultOk(ScalarTryToInt(s.ret.val)))

try_eval_bits(c, out, ty) ==
    LET int == try_eval_scalar_int(c, out)
    IN  IF int.panic THEN Panic
        ELSE IF ~int.ret.some THEN Returned(None)
        ELSE IF ConstantKind_ty(c) # ty THEN Panic
        ELSE LET size == LayoutSize(ty)
             IN  IF ~size.some THEN Returned(None)
                 ELSE Returned(ResultOk(ScalarIntToBits(int.ret.val, size.val)))

try_eval_target_usize(c, out) ==
    LET int == try_eval_scalar_int(c, out)
    IN  IF int.panic THEN Panic
        ELSE IF ~int.ret.some THEN Returned(None)
        ELSE Returned(ResultOk(ScalarIntTryToTargetUsize(int.ret.val)))

try_eval_bool(c, out) ==
    LET int == try_eval_scalar_int(c, out)
    IN  IF int.panic THEN Panic
        ELSE IF ~int.ret.some THEN Returned(None)
        ELSE Returned(ResultOk(ScalarIntTryIntoBool(int.ret.val)))

(***************************************************************************)
(* HIR of an anonymous constant, as from_anon_const reads it.              *)
(***************************************************************************)
\* the DefId of the anonymous constant being lowered, and of its HIR parent
AnonDid == "anon"
ParentDid == "f"

ExprPath(res) == [kind |-> "Path", res |-> res]
ExprBlock(stmts, expr) == [kind |-> "Block", stmts |-> stmts, expr |-> expr]
ResConstParam(def_id) == [def_kind |-> "ConstParam", def_id |-> def_id]
ResConst(def_id) == [def_kind |-> "Const", def_id |-> def_id]

\* generics.param_def_id_to_index[&def_id] for the const parameters N, M
ParamIndex(def_id) == IF def_id = "N" THEN 0 ELSE 1
\* tcx.item_name(def_id)
ItemName(def_id) == def_id

AtomExprs ==
    {ExprPath(ResConstParam("N")), ExprPath(ResConstParam("M")),
     ExprPath(ResConst("K")), [kind |-> "Binary"], [kind |-> "Lit"]}
Exprs ==
    AtomExprs
    \cup {ExprBlock(n, e) : n \in 0..1, e \in {None} \cup {Some(a) : a \in AtomExprs}}
    \cup {ExprBlock(0, Some(ExprBlock(0, Some(ExprPath(ResConstParam("N"))))))}

\* the HIR parent of the anonymous constant: none, a non-owner node, or an owner
HirParents == {None, Some([owner |-> FALSE]), Some([owner |-> TRUE, did |-> ParentDid])}

Hirs ==
    {h \in [node_kind : {"AnonConst"}, expr : Exprs, ty : {"usize", "bool"},
            parent : HirParents, parent_params : 0..MaxParams,
            own_params : 0..MaxParams] :
        (h.parent.some /\ h.parent.val.owner) \/ h.parent_params = 0}
    \cup [node_kind : {"Item"}, expr : {[kind |-> "Lit"]}, ty : {"usize"},
          parent : {None}, parent_params : {0}, own_params : {0}]

\* tcx.generics_of(did).count()
GenericsCount(h, did) == IF did = AnonDid THEN h.own_params ELSE h.parent_params

\* GenericArgs::identity_for_item(tcx, did): each generic parameter mapped to itself
identity_for_item(h, did) ==
    [i \in 1..GenericsCount(h, did) |-> [param_of |-> did, index |-> i - 1]]

\* lines 425-430: `{ P }` is unwrapped once
UnwrapBlock(expr) ==
    IF expr.kind = "Block" /\ expr.stmts = 0 /\ expr.expr.some
    THEN expr.expr.val ELSE expr

\* lines 444-458: a bare reference to a const generic parameter
IsConstParam_Never(expr) == FALSE
IsConstParam(expr) == expr.kind = "Path" /\ expr.res.def_kind = "ConstParam"

\* lines 460-467
ParentArgs(h) ==
    IF h.parent.some /\ h.parent.val.owner
    THEN identity_for_item(h, h.parent.val.did) ELSE <<>>

\* lines 470-476: the UnevaluatedConst of the eager evaluation attempt
EagerUneval(h) ==
    LET child_args == identity_for_item(h, AnonDid)
        args == ParentArgs(h) \o child_args
    IN  UnevaluatedConst_new(AnonDid, args)

\* the query from_anon_const issues, if any
FromAnonConstQuery(h) ==
    IF h.node_kind # "AnonConst" THEN None
    ELSE IF IsConstParam(UnwrapBlock(h.expr)) THEN None
    ELSE Some(ValueKey(EagerUneval(h)))

\* ConstantKind::from_anon_const
from_anon_const(h, out) ==
    IF h.node_kind # "AnonConst" THEN Panic
    ELSE LET expr == UnwrapBlock(h.expr)
             ty == h.ty
         IN  IF IsConstParam(expr)
             THEN Returned(CKTy(TyParam(ParamIndex(expr.res.def_id),
                                        ItemName(expr.res.def_id), ty)))
             ELSE IF out.ok THEN Returned(CKVal(out.val, ty))
             ELSE Returned(CKUnevaluated(
                      UnevaluatedConst(AnonDid, identity_for_item(h, AnonDid), None), ty))

(***************************************************************************)
(* The constants other lowering code builds.                               *)
(***************************************************************************)
Defs == {"A", "B", "C", "D", "G"}
TypeOf(def) ==
    CASE def = "A" -> "u32"
      [] def = "B" -> "bool"
      [] def = "C" -> "str"
      [] def = "D" -> "unit"
      [] OTHER -> "T"

Promoteds == {None} \cup {Some(p) : p \in 0..(MaxPromoted - 1)}

ValNodes == UNION {{CKVal(v, ty) : v \in ValuesOf(ty)} : ty \in Tys}
UnevaluatedNodes ==
    {CKUnevaluated(UnevaluatedConst(d, <<>>, p), TypeOf(d)) : d \in Defs, p \in Promoteds}
TyNodes ==
    {CKTy(TyParam(0, "N", "usize"))}
    \cup UNION {{CKTy(TyValue(t, ty)) : t \in ValTreesOf(ty)} : ty \in {"bool", "u32", "unit"}}
    \cup {CKTy(TyError(g, "u32")) : g \in Proofs}
    \cup {CKTy(TyUnevaluated(TyUnevaluatedConst(d, <<>>), TypeOf(d))) : d \in {"A", "D", "G"}}
Nodes == ValNodes \cup UnevaluatedNodes \cup TyNodes

Spans == {"sp1", "sp2"}
UserTys == {None, Some(0)}

(***************************************************************************)
(* The values and allocation tables the accessors are applied to.          *)
(***************************************************************************)
\* write_target_uint, little endian
RECURSIVE write_target_uint(_, _)
write_target_uint(n, size) ==
    IF size = 0 THEN <<>> ELSE <<n % 256>> \o write_target_uint(n \div 256, size - 1)

\* a pointer-sized field of an allocation: an integer, a pointer with
\* provenance, or uninitialized bytes
FInt(n) == [f |-> "Int", n |-> n]
FPtr(alloc, offset) == [f |-> "Ptr", n |-> offset, alloc |-> alloc]
FUninit == [f |-> "Uninit", n |-> 0]

\* ids of the allocation table: a1 is the memory string data lives in, a2 the
\* memory of the Indirect value, a3 a static item, a9 an id the table lacks
TargetIds == {"a1", "a3", "a9"}

PtrFields == {FInt(1), FUninit} \cup {FPtr(id, o) : id \in TargetIds, o \in 0..MaxLen}
LenFields == {FInt(n) : n \in 0..MaxLen} \cup {FUninit, FPtr("a1", 0)}

RECURSIVE Repeat(_, _)
Repeat(x, n) == IF n = 0 THEN <<>> ELSE <<x>> \o Repeat(x, n - 1)

FieldInit(f, ps) == Repeat(f.f # "Uninit", ps)

\* size bytes of: pad bytes, the data pointer, the length, zero bytes
FatPointerAlloc(pad, pf, lf, ps, size) ==
    Allocation(
        SubSeq(Repeat(0, pad) \o write_target_uint(pf.n, ps) \o write_target_uint(lf.n, ps)
                   \o Repeat(0, size),
               1, size),
        SubSeq(Repeat(TRUE, pad) \o FieldInit(pf, ps) \o FieldInit(lf, ps)
                   \o Repeat(TRUE, size),
               1, size),
        [o \in {x \in {pad, pad + ps} :
                    /\ x + ps <= size
                    /\ (IF x = pad THEN pf ELSE lf).f = "Ptr"}
            |-> (IF o = pad THEN pf ELSE lf).alloc])

OuterAllocs(ps) ==
    {FatPointerAlloc(pad, pf, lf, ps, size) :
        pad \in 0..MaxPad, pf \in PtrFields, lf \in LenFields, size \in 0..(MaxPad + 2 * ps)}

\* the bytes of "hi!"
TargetAlloc == Allocation(<<104, 105, 33>>, <<TRUE, TRUE, TRUE>>, [x \in {} |-> 0])

MemoryWith(outer) ==
    [id \in {"a1", "a2", "a3"} |->
        CASE id = "a1" -> Memory(TargetAlloc)
          [] id = "a2" -> Memory(outer)
          [] OTHER -> StaticItem]

BaseMemory == MemoryWith(FatPointerAlloc(0, FPtr("a1", 0), FInt(2), PointerSize, 2 * PointerSize))
Memories(ps) == {MemoryWith(a) : a \in OuterAllocs(ps)}

\* pointer widths of the data layouts: 16-bit targets and the 32-bit target
PtrSizes == {2, PointerSize}

\* byte widths asked of try_to_bits
Sizes == {1, 2, 4, 8}

ScalarLikeValues == UNION {ValuesOf(ty) : ty \in Tys \ {"str"}}
SliceValues ==
    {CVSlice("a1", r[1], r[2]) :
        r \in {x \in (0..AllocSize(TargetAlloc)) \X (0..AllocSize(TargetAlloc)) : x[1] <= x[2]}}
IndirectValues == {CVIndirect("a2", o) : o \in 0..MaxOffset}
NoValue == [cv |-> "none"]

(***************************************************************************)
(* The state.                                                              *)
(***************************************************************************)
Threads == 1..MaxThreads
NoNode == [span |-> "none"]
NoLast == [op |-> "none"]
NoReq == [ck |-> "none"]
NoGot == [ok |-> FALSE, err |-> [eh |-> "none"]]
EmptyFn == [x \in {} |-> 0]

Init ==
    /\ phase = "lowering"
    /\ node = NoNode
    /\ cache = EmptyFn
    /\ runs = EmptyFn
    /\ last = NoLast
    /\ pc = [t \in Threads |-> "idle"]
    /\ req = [t \in Threads |-> NoReq]
    /\ got = [t \in Threads |-> NoGot]
    /\ inflight = {}
    /\ delivered = EmptyFn
    /\ ptr_size = PointerSize
    /\ memory = BaseMemory
    /\ cval = NoValue

valVars == <<ptr_size, memory, cval>>
concVars == <<pc, req, got, inflight, delivered>>

\* one call of the memoized query for rq (if any) from a single caller: a cached
\* key is answered from the cache, a new key is computed once and stored
QueryOutcomes(rq, ty) ==
    IF ~rq.some THEN {NoOutcome}
    ELSE IF rq.val \in DOMAIN cache THEN {cache[rq.val]}
    ELSE Outcomes(rq.val, ty)

Memoize(rq, o) ==
    IF rq.some /\ rq.val \notin DOMAIN cache
    THEN cache' = cache @@ (rq.val :> o) /\ runs' = runs @@ (rq.val :> 1)
    ELSE UNCHANGED <<cache, runs>>

Queried(rq) == IF rq.some THEN <<rq.val>> ELSE <<>>

(***************************************************************************)
(* Lowering: the constant of the body is built.                            *)
(***************************************************************************)
LowerGiven ==
    /\ phase = "lowering"
    /\ \E n \in Nodes, sp \in Spans, u \in UserTys :
          node' = Constant(sp, u, n)
    /\ phase' = "passes"
    /\ UNCHANGED <<cache, runs, last, concVars, valVars>>

LowerAnonConst ==
    /\ phase = "lowering"
    /\ \E h \in Hirs, sp \in Spans :
          LET rq == FromAnonConstQuery(h)
          IN  \E o \in QueryOutcomes(rq, h.ty) :
                 LET r == from_anon_const(h, o)
                 IN  /\ last' = [op |-> "from_anon_const", arg |-> h, result |-> r,
                                 queried |-> Queried(rq)]
                     /\ IF r.panic
                        THEN node' = node /\ phase' = "aborted"
                        ELSE node' = Constant(sp, None, r.ret) /\ phase' = "passes"
                     /\ Memoize(rq, o)
    /\ UNCHANGED <<concVars, valVars>>

(***************************************************************************)
(* Passes: operations on the constant of the body.                         *)
(***************************************************************************)
Record(op, arg, result, rq) ==
    last' = [op |-> op, arg |-> arg, result |-> result, queried |-> Queried(rq),
             chained |-> FALSE]

Eval ==
    /\ phase = "passes"
    /\ LET c == node.literal
           rq == EvalQuery(c)
       IN  \E o \in QueryOutcomes(rq, ConstantKind_ty(c)) :
              /\ Record("eval", c, Returned(eval(c, o)), rq)
              /\ Memoize(rq, o)
    /\ UNCHANGED <<phase, node, concVars, valVars>>

Normalize ==
    /\ phase = "passes"
    /\ LET c == node.literal
           rq == EvalQuery(c)
       IN  \E o \in QueryOutcomes(rq, ConstantKind_ty(c)) :
              /\ Record("normalize", c, Returned(normalize(c, o)), rq)
              /\ Memoize(rq, o)
    /\ UNCHANGED <<phase, node, concVars, valVars>>

\* normalize applied to what the last normalize returned
NormalizeAgain ==
    /\ phase = "passes"
    /\ last.op = "normalize"
    /\ LET c == last.result.ret
           rq == EvalQuery(c)
       IN  \E o \in QueryOutcomes(rq, ConstantKind_ty(c)) :
              /\ last' = [op |-> "normalize", arg |-> c,
                          result |-> Returned(normalize(c, o)),
                          queried |-> Queried(rq), chained |-> TRUE]
              /\ Memoize(rq, o)
    /\ UNCHANGED <<phase, node, concVars, valVars>>

TryEvalScalar ==
    /\ phase = "passes"
    /\ LET c == node.literal
           rq == EvalQuery(c)
       IN  \E o \in QueryOutcomes(rq, ConstantKind_ty(c)) :
              /\ Record("try_eval_scalar", c, try_eval_scalar(c, o), rq)
              /\ Memoize(rq, o)
    /\ UNCHANGED <<phase, node, concVars, valVars>>

TryEvalScalarInt ==
    /\ phase = "passes"
    /\ LET c == node.literal
           rq == EvalQuery(c)
       IN  \E o \in QueryOutcomes(rq, ConstantKind_ty(c)) :
              /\ Record("try_eval_scalar_int", c, try_eval_scalar_int(c, o), rq)
              /\ Memoize(rq, o)
    /\ UNCHANGED <<phase, node, concVars, valVars>>

TryEvalBits ==
    /\ phase = "passes"
    /\ \E ty \in Tys :
          LET c == node.literal
              rq == EvalQuery(c)
          IN  \E o \in QueryOutcomes(rq, ConstantKind_ty(c)) :
                 /\ last' = [op |-> "try_eval_bits", arg |-> c, ty |-> ty,
                             result |-> try_eval_bits(c, o, ty),
                             queried |-> Queried(rq), chained |-> FALSE]
                 /\ Memoize(rq, o)
    /\ UNCHANGED <<phase, node, concVars, valVars>>

TryEvalTargetUsize ==
    /\ phase = "passes"
    /\ LET c == node.literal
           rq == EvalQuery(c)
       IN  \E o \in QueryOutcomes(rq, ConstantKind_ty(c)) :
              /\ Record("try_eval_target_usize", c, try_eval_target_usize(c, o), rq)
              /\ Memoize(rq, o)
    /\ UNCHANGED <<phase, node, concVars, valVars>>

TryEvalBool ==
    /\ phase = "passes"
    /\ LET c == node.literal
           rq == EvalQuery(c)
       IN  \E o \in QueryOutcomes(rq, ConstantKind_ty(c)) :
              /\ Record("try_eval_bool", c, try_eval_bool(c, o), rq)
              /\ Memoize(rq, o)
    /\ UNCHANGED <<phase, node, concVars, valVars>>

Shrink ==
    /\ phase = "passes"
    /\ node.literal.ck = "Unevaluated"
    /\ Record("shrink", node.literal.uv, shrink(node.literal.uv), None)
    /\ UNCHANGED <<phase, node, cache, runs, concVars, valVars>>

\* `==` of the body's constant with another constant
Compare ==
    /\ phase = "passes"
    /\ \E sp \in Spans, u \in UserTys, l \in {node.literal, CKVal(CVZeroSized, "unit")} :
          LET other == Constant(sp, u, l)
          IN  Record("eq", other, Returned(Constant_eq(node, other)), None)
    /\ UNCHANGED <<phase, node, cache, runs, concVars, valVars>>

Next ==
    \/ LowerGiven
    \/ LowerAnonConst
    \/ Eval
    \/ Normalize
    \/ NormalizeAgain
    \/ TryEvalScalar
    \/ TryEvalScalarInt
    \/ TryEvalBits
    \/ TryEvalTargetUsize
    \/ TryEvalBool
    \/ Shrink
    \/ Compare

Spec == Init /\ [][Next]_vars

(***************************************************************************)
(* Concurrent requesters: eval called from several threads.  The memoized  *)
(* query coalesces the requests of one key: the first requester runs the   *)
(* underlying computation, the others block until its result is cached.    *)
(***************************************************************************)
ConcNodes ==
    {CKUnevaluated(UnevaluatedConst("B", <<>>, None), "bool"),
     CKUnevaluated(UnevaluatedConst("B", <<>>, Some(0)), "bool"),
     CKTy(TyUnevaluated(TyUnevaluatedConst("D", <<>>), "unit")),
     CKVal(CVScalar(ScalarOfInt(ScalarInt(1, 1))), "bool")}

Deliver(t, c, rq, o) ==
    /\ got' = [got EXCEPT ![t] = eval(c, o)]
    /\ pc' = [pc EXCEPT ![t] = "done"]
    /\ delivered' =
          IF ~rq.some THEN delivered
          ELSE IF rq.val \in DOMAIN delivered
               THEN [delivered EXCEPT ![rq.val] = @ \cup {eval(c, o)}]
          ELSE delivered @@ (rq.val :> {eval(c, o)})

\* whether a request for key k must wait for a computation in flight
MustWait_Never(k) == FALSE
MustWait(k) == k \in inflight

\* a thread calls eval(c)
Request(t) ==
    /\ pc[t] = "idle"
    /\ \E c \in ConcNodes :
          LET rq == EvalQuery(c)
          IN  /\ req' = [req EXCEPT ![t] = c]
              /\ IF ~rq.some
                 THEN Deliver(t, c, rq, NoOutcome) /\ UNCHANGED <<inflight, runs>>
                 ELSE IF rq.val \in DOMAIN cache
                 THEN Deliver(t, c, rq, cache[rq.val]) /\ UNCHANGED <<inflight, runs>>
                 ELSE IF MustWait(rq.val)
                 THEN /\ pc' = [pc EXCEPT ![t] = "blocked"]
                      /\ UNCHANGED <<got, delivered, inflight, runs>>
                 ELSE /\ (rq.val \in DOMAIN runs => runs[rq.val] < MaxRuns)
                      /\ pc' = [pc EXCEPT ![t] = "computing"]
                      /\ inflight' = inflight \cup {rq.val}
                      /\ runs' = IF rq.val \in DOMAIN runs
                                 THEN [runs EXCEPT ![rq.val] = @ + 1]
                                 ELSE runs @@ (rq.val :> 1)
                      /\ UNCHANGED <<got, delivered>>
    /\ UNCHANGED <<phase, node, cache, last, valVars>>

\* the underlying computation of the thread's key finishes and is cached
Compute(t) ==
    /\ pc[t] = "computing"
    /\ LET c == req[t]
           rq == EvalQuery(c)
       IN  \E o \in Outcomes(rq.val, ConstantKind_ty(c)) :
              /\ cache' = (rq.val :> o) @@ cache
              /\ inflight' = inflight \ {rq.val}
              /\ Deliver(t, c, rq, o)
    /\ UNCHANGED <<phase, node, last, runs, req, valVars>>

\* a blocked thread receives the cached result
Wake(t) ==
    /\ pc[t] = "blocked"
    /\ LET c == req[t]
           rq == EvalQuery(c)
       IN  /\ rq.val \in DOMAIN cache
           /\ Deliver(t, c, rq, cache[rq.val])
    /\ UNCHANGED <<phase, node, last, cache, runs, inflight, req, valVars>>

\* eval returns to the thread's caller
Return(t) ==
    /\ pc[t] = "done"
    /\ pc' = [pc EXCEPT ![t] = "idle"]
    /\ req' = [req EXCEPT ![t] = NoReq]
    /\ got' = [got EXCEPT ![t] = NoGot]
    /\ UNCHANGED <<phase, node, last, cache, runs, inflight, delivered, valVars>>

NextConc == \E t \in Threads : Request(t) \/ Compute(t) \/ Wake(t) \/ Return(t)

SpecConc == Init /\ [][NextConc]_vars

(***************************************************************************)
(* The accessors of a resolved value: one value, one allocation table and  *)
(* one data layout per behaviour, the accessors applied in any order.      *)
(***************************************************************************)
InitValue ==
    /\ phase = "values"
    /\ node = NoNode
    /\ cache = EmptyFn
    /\ runs = EmptyFn
    /\ last = NoLast
    /\ pc = [t \in Threads |-> "idle"]
    /\ req = [t \in Threads |-> NoReq]
    /\ got = [t \in Threads |-> NoGot]
    /\ inflight = {}
    /\ delivered = EmptyFn
    /\ \/ /\ cval \in ScalarLikeValues \cup SliceValues
          /\ ptr_size = PointerSize
          /\ memory = BaseMemory
       \/ /\ cval \in IndirectValues
          /\ ptr_size \in PtrSizes
          /\ memory \in Memories(ptr_size)

ValueOp(op, result) == last' = [op |-> op, arg |-> cval, result |-> result]

TryToScalar ==
    /\ phase = "values"
    /\ ValueOp("try_to_scalar", ConstValue_try_to_scalar(cval))
    /\ UNCHANGED <<phase, node, cache, runs, concVars, valVars>>

TryToScalarInt ==
    /\ phase = "values"
    /\ ValueOp("try_to_scalar_int", ConstValue_try_to_scalar_int(cval))
    /\ UNCHANGED <<phase, node, cache, runs, concVars, valVars>>

TryToBits ==
    /\ phase = "values"
    /\ \E size \in Sizes :
          last' = [op |-> "try_to_bits", arg |-> cval, size |-> size,
                   result |-> ConstValue_try_to_bits(cval, size)]
    /\ UNCHANGED <<phase, node, cache, runs, concVars, valVars>>

TryToBool ==
    /\ phase = "values"
    /\ ValueOp("try_to_bool", ConstValue_try_to_bool(cval))
    /\ UNCHANGED <<phase, node, cache, runs, concVars, valVars>>

TryGetSliceBytes ==
    /\ phase = "values"
    /\ LET out == try_get_slice_bytes_for_diagnostics(cval, memory, ptr_size)
       IN  last' = [op |-> "try_get_slice_bytes", arg |-> cval, result |-> out.res,
                    reads |-> out.reads, lookups |-> out.lookups]
    /\ UNCHANGED <<phase, node, cache, runs, concVars, valVars>>

NextValue ==
    \/ TryToScalar
    \/ TryToScalarInt
    \/ TryToBits
    \/ TryToBool
    \/ TryGetSliceBytes

SpecValue == InitValue /\ [][NextValue]_vars

(***************************************************************************)
(* Properties.                                                             *)
(***************************************************************************)
\* what eval(c) yields in the current state, from the cached outcome of its key
EvalNow(c) ==
    LET rq == EvalQuery(c)
    IN  eval(c, IF rq.some /\ rq.val \in DOMAIN cache THEN cache[rq.val] ELSE NoOutcome)

\* C1: normalize is idempotent: normalizing what normalize returned, with the
\* evaluator's outcome fixed per key, returns it unchanged.
C1_NormalizeIdempotent ==
    (last.op = "normalize" /\ last.chained) => last.result = Returned(last.arg)

C1_Witness ==
    /\ last.op = "normalize" /\ last.chained
    /\ node.literal.ck = "Unevaluated"
    /\ last.arg.ck = "Ty" /\ last.arg.c.kind = "Error"
    /\ last.result = Returned(last.arg)

\* C2: for an Unevaluated node whose resolution fails with Reported(proof), eval
\* returns that error and the node of the body is untouched, and normalize
\* returns the type-level error sentinel carrying the same proof.
C2_ReportedEvalAndNormalize ==
    (/\ last.op \in {"eval", "normalize"}
     /\ last.arg.ck = "Unevaluated"
     /\ ValueKey(last.arg.uv) \in DOMAIN cache
     /\ ~cache[ValueKey(last.arg.uv)].ok
     /\ cache[ValueKey(last.arg.uv)].err.eh = "Reported")
    => LET info == cache[ValueKey(last.arg.uv)].err.info
       IN  IF last.op = "eval"
           THEN /\ last.result = Returned(Err(Reported(info)))
                /\ node.literal = last.arg
           ELSE last.result = Returned(CKTy(TyError(info.error, last.arg.ty)))

C2_Witness ==
    /\ last.op = "normalize"
    /\ last.arg.ck = "Unevaluated"
    /\ last.arg.uv.promoted = Some(0)
    /\ cache[ValueKey(last.arg.uv)] = Err(Reported(ReportedErrorInfo("g2", TRUE)))
    /\ last.result = Returned(CKTy(TyError("g2", last.arg.ty)))

\* C3: when eval fails with TooGeneric, normalize returns its receiver unchanged:
\* same variant, same payload, same type.
C3_TooGenericKeepsReceiver ==
    (/\ last.op = "normalize"
     /\ ~EvalNow(last.arg).ok
     /\ EvalNow(last.arg).err = TooGeneric)
    => last.result = Returned(last.arg)

C3_Witness ==
    /\ last.op = "normalize"
    /\ last.arg.ck = "Unevaluated"
    /\ last.arg.uv.promoted = Some(0)
    /\ cache[ValueKey(last.arg.uv)] = Err(TooGeneric)
    /\ last.result = Returned(last.arg)

\* C4: eval on Val(v, ty) returns Ok(v) and issues no query: neither the
\* type-system evaluator nor the memoized resolution is invoked.
C4_EvalValIsIdentity ==
    (last.op = "eval" /\ last.arg.ck = "Val")
    => /\ last.result = Returned(Ok(last.arg.val))
       /\ last.queried = <<>>

C4_Witness ==
    /\ last.op = "eval"
    /\ last.arg = CKVal(CVIndirect("a2", 0), "str")
    /\ last.result = Returned(Ok(CVIndirect("a2", 0)))
    /\ cache = EmptyFn

\* C5: under any interleaving of concurrent eval requests the underlying
\* computation of a key runs at most once, and every request of that key is
\* handed the same result or the same error.
C5_AtMostOncePerKey ==
    /\ \A k \in DOMAIN runs : runs[k] <= 1
    /\ \A k \in DOMAIN delivered : Cardinality(delivered[k]) <= 1
    /\ \A t \in Threads :
          (pc[t] = "done" /\ EvalQuery(req[t]).some)
          => /\ EvalQuery(req[t]).val \in DOMAIN cache
             /\ got[t] = EvalNow(req[t])

C5_Witness ==
    \E t1, t2 \in Threads :
       /\ t1 # t2
       /\ pc[t1] = "done" /\ pc[t2] = "done"
       /\ req[t1] = req[t2]
       /\ req[t1].ck = "Unevaluated"
       /\ got[t1] = got[t2]
       /\ runs[ValueKey(req[t1].uv)] = 1

\* the arguments start with the identity arguments of the parent and have
\* length parent-parameter-count + child-parameter-count
ParentThenChild(h, args) ==
    /\ Len(args) = h.parent_params + h.own_params
    /\ \A i \in 1..h.parent_params : args[i] = [param_of |-> ParentDid, index |-> i - 1]

\* C6: for an anonymous constant nested in a generic parent, the argument list
\* is parent arguments then child arguments, both for the UnevaluatedConst of
\* the eager evaluation attempt and for the Unevaluated node stored on failure.
C6_ArgsParentThenChild ==
    (/\ last.op = "from_anon_const"
     /\ last.arg.parent.some /\ last.arg.parent.val.owner
     /\ last.arg.parent_params >= 1
     /\ last.queried # <<>>)
    => /\ ParentThenChild(last.arg, last.queried[1].args)
       /\ (last.result.ret.ck = "Unevaluated"
           => ParentThenChild(last.arg, last.result.ret.uv.args))

\* the expression is a bare const parameter, possibly inside one statement-free block
BareConstParam(e) ==
    \/ e \in {ExprPath(ResConstParam(p)) : p \in {"N", "M"}}
    \/ e \in {ExprBlock(0, Some(ExprPath(ResConstParam(p)))) : p \in {"N", "M"}}

\* C7: in from_anon_const a bare reference to a const generic parameter (also
\* as `{ P }`) yields the type-level parameter node (index, name) and no
\* evaluation or resolution query is issued by the call.
C7_ParamShortCircuits ==
    (/\ last.op = "from_anon_const"
     /\ last.arg.node_kind = "AnonConst"
     /\ BareConstParam(last.arg.expr))
    => LET e == IF last.arg.expr.kind = "Block" THEN last.arg.expr.expr.val
                ELSE last.arg.expr
           p == e.res.def_id
       IN  /\ last.result =
                Returned(CKTy(TyParam(IF p = "N" THEN 0 ELSE 1, p, last.arg.ty)))
           /\ last.queried = <<>>
           /\ cache = EmptyFn

C7_Witness ==
    /\ last.op = "from_anon_const"
    /\ last.arg.expr = ExprBlock(0, Some(ExprPath(ResConstParam("M"))))
    /\ last.arg.parent.some /\ last.arg.parent.val.owner
    /\ last.result = Returned(CKTy(TyParam(1, "M", "usize")))
    /\ cache = EmptyFn

\* C8: shrink fails fatally on promoted = Some(_) and otherwise returns the
\* type-level form with the same def and the same args.
C8_ShrinkChecksPromoted ==
    last.op = "shrink"
    => IF last.arg.promoted.some THEN last.result = Panic
       ELSE last.result = Returned(TyUnevaluatedConst(last.arg.def, last.arg.args))

C8_Witness ==
    /\ last.op = "shrink"
    /\ last.arg.promoted = Some(0)
    /\ last.result = Panic

TryEvalOps ==
    {"try_eval_scalar", "try_eval_scalar_int", "try_eval_bits",
     "try_eval_target_usize", "try_eval_bool"}

\* eval(c) yields a scalar integer
IntOk(c) ==
    /\ EvalNow(c).ok
    /\ EvalNow(c).val.cv = "Scalar"
    /\ EvalNow(c).val.scalar.tag = "Int"

\* the operation of `last` fails: evaluation error, or shape, width or layout mismatch
TryEvalFails ==
    LET c == last.arg
        int == EvalNow(c).val.scalar.int
    IN  CASE last.op = "try_eval_scalar" ->
               ~EvalNow(c).ok \/ EvalNow(c).val.cv # "Scalar"
          [] last.op = "try_eval_scalar_int" -> ~IntOk(c)
          [] last.op = "try_eval_target_usize" -> ~IntOk(c) \/ int.size # PointerSize
          [] last.op = "try_eval_bool" ->
               ~IntOk(c) \/ int.size # 1 \/ int.data \notin {0, 1}
          [] OTHER ->
               \/ ~IntOk(c)
               \/ ~LayoutSize(last.ty).some
               \/ LayoutSize(last.ty).val # int.size

\* C9 as claimed: the try_eval_* methods return None on any failure and never abort.
C9_TryEvalNeverAborts ==
    last.op \in TryEvalOps
    => /\ ~last.result.panic
       /\ (TryEvalFails => last.result.ret = None)

\* C9 as amended: they return None on every failure and never abort, except
\* that try_eval_bits aborts when evaluation yields a scalar integer and its ty
\* argument is not the constant's own type.
C9_TryEvalAbortsOnlyOnTyMismatch ==
    last.op \in TryEvalOps
    => /\ last.result.panic
          <=> (/\ last.op = "try_eval_bits"
               /\ IntOk(last.arg)
               /\ last.ty # ConstantKind_ty(last.arg))
       /\ ~last.result.panic
          => /\ TryEvalFails => last.result.ret = None
             /\ ~TryEvalFails => last.result.ret.some

C9_Witness ==
    /\ last.op = "try_eval_bits"
    /\ last.arg.ck = "Unevaluated"
    /\ last.ty # ConstantKind_ty(last.arg)
    /\ cache[ValueKey(last.arg.uv)] = Err(TooGeneric)
    /\ last.result = Returned(None)

\* C10 as claimed: two Constants with the same user_ty and the same literal
\* compare equal whatever their spans.
C10_EqIgnoresSpan ==
    (/\ last.op = "eq"
     /\ last.arg.user_ty = node.user_ty
     /\ last.arg.literal = node.literal)
    => last.result = Returned(TRUE)

\* C10 as amended: the derived equality compares the span too: two Constants
\* with the same user_ty and the same literal compare equal exactly when their
\* spans are equal.
C10_EqComparesSpan ==
    (/\ last.op = "eq"
     /\ last.arg.user_ty = node.user_ty
     /\ last.arg.literal = node.literal)
    => (last.result = Returned(TRUE) <=> last.arg.span = node.span)

C10_Witness ==
    /\ last.op = "eq"
    /\ last.arg.user_ty = node.user_ty
    /\ last.arg.literal = node.literal
    /\ last.arg.span # node.span
    /\ last.result = Returned(FALSE)

\* the last operation was slice-byte extraction on an Indirect value
SliceBytesOfIndirect == last.op = "try_get_slice_bytes" /\ last.arg.cv = "Indirect"

\* the allocation of the Indirect value, its data-pointer field and its length field
OuterAlloc == memory[cval.alloc_id].alloc
LargeEnough == AllocSize(OuterAlloc) >= cval.offset + 2 * ptr_size
PtrField == read_scalar(OuterAlloc, cval.offset, ptr_size, TRUE, ptr_size)
LenField == read_scalar(OuterAlloc, cval.offset + ptr_size, ptr_size, FALSE, ptr_size)
DecodedLen ==
    IF LargeEnough /\ LenField.ok
    THEN ResultOk(Scalar_to_target_usize(LenField.val, ptr_size))
    ELSE None
PtrHasAllocId == PtrField.ok /\ PtrField.val.tag = "Ptr"

\* C11: slice-byte extraction on an Indirect value whose allocation is smaller
\* than offset + 2 * pointer_size returns absence, for every offset and pointer
\* size, and no byte range of the allocation has been read.
C11_DanglingReferenceIsNone ==
    (SliceBytesOfIndirect /\ AllocSize(OuterAlloc) < cval.offset + 2 * ptr_size)
    => /\ last.result = Returned(None)
       /\ last.reads = <<>>

\* an allocation that holds the data pointer but not the whole length field
C11_Witness ==
    /\ SliceBytesOfIndirect
    /\ AllocSize(OuterAlloc) >= cval.offset + ptr_size
    /\ AllocSize(OuterAlloc) < cval.offset + 2 * ptr_size
    /\ last.result = Returned(None)
    /\ last.reads = <<>>

\* C12 as stated: with a decoded length of 0 the result is Some(empty) whatever
\* the data-pointer field holds, unreadable included, and no target is looked up.
C12_EmptyWhateverThePointer ==
    (SliceBytesOfIndirect /\ DecodedLen = Some(0))
    => /\ last.result = Returned(Some(<<>>))
       /\ last.lookups = <<cval.alloc_id>>

\* C12: with a decoded length of 0 and a data-pointer field that can be read
\* (with or without provenance, to memory, to a static or to a missing
\* allocation) the result is Some(empty) and no target allocation is looked up;
\* a data-pointer field that cannot be read gives None before the length counts.
C12_EmptyWhenPointerReadable ==
    (SliceBytesOfIndirect /\ DecodedLen = Some(0))
    => /\ last.result = IF PtrField.ok THEN Returned(Some(<<>>)) ELSE Returned(None)
       /\ last.lookups = <<cval.alloc_id>>

C12_Witness ==
    /\ SliceBytesOfIndirect
    /\ DecodedLen = Some(0)
    /\ PtrHasAllocId
    /\ PtrField.val.alloc \notin DOMAIN memory
    /\ last.result = Returned(Some(<<>>))
    /\ last.lookups = <<cval.alloc_id>>

\* C13: try_to_scalar returns Some(s), s unchanged, for Scalar(s) and None for
\* ZeroSized, Slice and Indirect.
C13_TryToScalar ==
    last.op = "try_to_scalar"
    => last.result = IF last.arg.cv = "Scalar" THEN Some(last.arg.scalar) ELSE None

C13_Witness ==
    /\ last.op = "try_to_scalar"
    /\ last.arg.cv = "Indirect"
    /\ last.result = None

\* C14: try_to_bits(s) on a Scalar integer of width w and value v returns Some(v)
\* when s = w and None, never a truncated value, when s # w; on a pointer scalar
\* and on every other variant it returns None.
C14_TryToBits ==
    last.op = "try_to_bits"
    => last.result =
          IF last.arg.cv = "Scalar" /\ last.arg.scalar.tag = "Int"
                /\ last.size = last.arg.scalar.int.size
          THEN Some(last.arg.scalar.int.data)
          ELSE None

\* the 4-byte 300 asked for as one byte
C14_Witness ==
    /\ last.op = "try_to_bits"
    /\ last.arg = CVScalar(ScalarOfInt(ScalarInt(4, 300)))
    /\ last.size = 1
    /\ last.result = None

\* the table holds memory for id with at least the bytes [offset, offset + len)
TargetHolds(id, offset, len) ==
    /\ id \in DOMAIN memory
    /\ memory[id].kind = "Memory"
    /\ offset + len <= AllocSize(memory[id].alloc)

BytesOf(id, start, end) == SubSeq(memory[id].alloc.bytes, start + 1, end)

SliceBytesOfSlice == last.op = "try_get_slice_bytes" /\ last.arg.cv = "Slice"

\* C15 as stated: with a large-enough allocation and a non-zero decoded length,
\* a data pointer without allocation id gives None and any other gives the bytes
\* [offset, offset + length) of the target; a Slice gives its bytes [start, end).
C15_BytesOfTarget ==
    /\ (SliceBytesOfIndirect /\ DecodedLen.some /\ DecodedLen # Some(0))
       => IF PtrHasAllocId
          THEN /\ TargetHolds(PtrField.val.alloc, PtrField.val.offset, DecodedLen.val)
               /\ last.result = Returned(Some(BytesOf(PtrField.val.alloc, PtrField.val.offset,
                                                       PtrField.val.offset + DecodedLen.val)))
          ELSE last.result = Returned(None)
    /\ SliceBytesOfSlice
       => last.result = Returned(Some(BytesOf(cval.data, cval.start, cval.end)))

\* C15: as above when the data pointer's allocation id names memory that holds
\* [offset, offset + length); when it names no memory, or memory too short for
\* the range, the call aborts.
C15_BytesOfTargetThatHoldsThem ==
    /\ (SliceBytesOfIndirect /\ DecodedLen.some /\ DecodedLen # Some(0))
       => IF ~PtrHasAllocId THEN last.result = Returned(None)
          ELSE IF TargetHolds(PtrField.val.alloc, PtrField.val.offset, DecodedLen.val)
          THEN last.result = Returned(Some(BytesOf(PtrField.val.alloc, PtrField.val.offset,
                                                   PtrField.val.offset + DecodedLen.val)))
          ELSE last.result = Panic
    /\ SliceBytesOfSlice
       => last.result = Returned(Some(BytesOf(cval.data, cval.start, cval.end)))

\* the last two bytes of "hi!" through a fat pointer
C15_Witness ==
    /\ SliceBytesOfIndirect
    /\ DecodedLen = Some(2)
    /\ PtrHasAllocId
    /\ PtrField.val = ScalarPtr("a1", 1)
    /\ last.result = Returned(Some(<<105, 33>>))

\* C16: normalize keeps the static type, normalize(c).ty() = c.ty() for every c
\* and every outcome of eval, and its result is a Val exactly when eval succeeded.
C16_NormalizeKeepsTy ==
    last.op = "normalize"
    => /\ ~last.result.panic
       /\ ConstantKind_ty(last.result.ret) = ConstantKind_ty(last.arg)
       /\ (last.result.ret.ck = "Val") <=> EvalNow(last.arg).ok

\* a type-level value becomes a Val of the same type
C16_Witness ==
    /\ last.op = "normalize"
    /\ last.arg.ck = "Ty" /\ last.arg.c.kind = "Value"
    /\ last.result.ret.ck = "Val"
    /\ last.result.ret.ty = last.arg.c.ty

=============================================================================
